---- MODULE Spec2Model ----
(***************************************************************************)
(* State-machine model of playlist_glass_ui.py: the doubly linked playlist *)
(* (DoublyLinkedList), the name index (song_map), the history stack, the   *)
(* playback flags of MusicPlayer, the listbox selection the handlers read, *)
(* and the pygame mixer as far as the handlers command and poll it.        *)
(***************************************************************************)
EXTENDS Integers, Sequences, FiniteSets, TLC

\* ---------------------------------------------------------------- bounds
MaxNodes == 3      \* Node objects constructed in one run
MaxHist == 2       \* length of the history stack
MaxPending == 1    \* SONG_END_EVENTs waiting in the pygame event queue
MaxAdd == 2        \* paths returned by one file dialog

\* ---------------------------------------------------------------- values
Null == 0          \* Python None, as a node reference
NodeIds == 1..MaxNodes

\* Song names are sequences of characters, paths are <<directory, name>>.
NameA == <<"a", "l">>
NameB == <<"B", "a">>
NameC == <<"c">>
NoPath == <<>>
Paths == {<<"d1", NameA>>, <<"d2", NameA>>, <<"d1", NameB>>, <<"d1", NameC>>}
Queries == {<<>>, <<" ">>, <<"a">>, <<"A", " ">>, <<"B", "a">>, <<"z">>}

VARIABLES
    nodes,              \* NodeIds -> [data, next, prev]: the heap of Node objects
    nalloc,             \* number of Node objects constructed so far
    head, tail,         \* self.playlist.head / .tail
    song_map,           \* insertion-ordered dict: sequence of [name, node]
    history,            \* self.history (stack of node references)
    upcoming,           \* self.upcoming (placeholder queue)
    current_song_node,  \* self.current_song_node
    is_playing, is_paused,
    playlist_box,       \* the listbox items (names)
    selection,          \* curselection(): 0 or an index of playlist_box
    button,             \* text of play_button: "Play" or "Pause"
    eng,                \* pygame.mixer.music: "idle", "playing" or "paused"
    pending             \* number of SONG_END_EVENTs in the pygame event queue

vars == <<nodes, nalloc, head, tail, song_map, history, upcoming,
          current_song_node, is_playing, is_paused, playlist_box, selection,
          button, eng, pending>>

storeVars == <<nodes, nalloc, head, tail, song_map, playlist_box>>
engVars == <<eng, pending>>

\* ---------------------------------------------------------------- helpers
Range(s) == {s[i] : i \in 1..Len(s)}

\* os.path.basename: the last component of the path
basename(p) == p[Len(p)]

\* Node(data)
NewNode(p) == [data |-> p, next |-> Null, prev |-> Null]

\* dict operations on the insertion-ordered song_map
MapKeys(m) == {m[i].name : i \in 1..Len(m)}
MapGet(m, k) ==
    IF k \in MapKeys(m)
    THEN LET i == CHOOSE j \in 1..Len(m) : m[j].name = k IN m[i].node
    ELSE Null
\* Faulty variant: the del statement forgotten
MapDel_forgotten(m, k) == m
MapDel(m, k) == SelectSeq(m, LAMBDA e : e.name # k)

\* list.index / listbox item lookup: 0 when the name is not in the box
IndexOf(box, name) ==
    IF \E i \in 1..Len(box) : box[i] = name
    THEN CHOOSE i \in 1..Len(box) : box[i] = name /\ \A j \in 1..(i-1) : box[j] # name
    ELSE 0

\* Listbox.delete(index)
BoxDelete(box, i) == [j \in 1..(Len(box)-1) |-> IF j < i THEN box[j] ELSE box[j+1]]

\* ------------------------------------------------- DoublyLinkedList
\* A list state is a record [n |-> nodes, h |-> head, t |-> tail].
dll_add_song(pl, node) ==
    IF pl.h = Null
    THEN [pl EXCEPT !.h = node, !.t = node]
    ELSE [n |-> [pl.n EXCEPT ![pl.t].next = node, ![node].prev = pl.t],
          h |-> pl.h,
          t |-> node]

\* Faulty variant: the tail is not moved back when the tail node is removed
dll_delete_song_tail_kept(pl, node) ==
    LET p == pl.n[node].prev
        x == pl.n[node].next
        n1 == IF p # Null THEN [pl.n EXCEPT ![p].next = x] ELSE pl.n
        h1 == IF p # Null THEN pl.h ELSE x
        n2 == IF x # Null THEN [n1 EXCEPT ![x].prev = p] ELSE n1
    IN [n |-> [n2 EXCEPT ![node].next = Null, ![node].prev = Null],
        h |-> h1,
        t |-> pl.t]

\* Faulty variant: the removed node keeps its next and prev references
dll_delete_song_links_kept(pl, node) ==
    LET p == pl.n[node].prev
        x == pl.n[node].next
        n1 == IF p # Null THEN [pl.n EXCEPT ![p].next = x] ELSE pl.n
        h1 == IF p # Null THEN pl.h ELSE x
        n2 == IF x # Null THEN [n1 EXCEPT ![x].prev = p] ELSE n1
        t1 == IF x # Null THEN pl.t ELSE p
    IN [n |-> n2, h |-> h1, t |-> t1]

dll_delete_song(pl, node) ==
    LET p == pl.n[node].prev
        x == pl.n[node].next
        n1 == IF p # Null THEN [pl.n EXCEPT ![p].next = x] ELSE pl.n
        h1 == IF p # Null THEN pl.h ELSE x
        n2 == IF x # Null THEN [n1 EXCEPT ![x].prev = p] ELSE n1
        t1 == IF x # Null THEN pl.t ELSE p
    IN [n |-> [n2 EXCEPT ![node].next = Null, ![node].prev = Null],
        h |-> h1,
        t |-> t1]

\* Faulty variant: only the head is reset
dll_clear_tail_kept(pl) == [pl EXCEPT !.h = Null]
dll_clear(pl) == [pl EXCEPT !.h = Null, !.t = Null]

\* The nodes reachable from head by next links, in order.
RECURSIVE Walk(_, _, _)
Walk(n, from, fuel) ==
    IF from = Null \/ fuel = 0 THEN <<>>
    ELSE <<from>> \o Walk(n, n[from].next, fuel - 1)
Linked == Walk(nodes, head, MaxNodes + 1)
LinkedSet == Range(Linked)
NameOf(node) == basename(nodes[node].data)

\* Reference counting: a Node nothing refers to any more is reclaimed.
Collect(n, h, hist, cur) ==
    LET live == Range(Walk(n, h, MaxNodes + 1)) \cup Range(hist) \cup {cur}
    IN [i \in NodeIds |-> IF i \in live THEN n[i] ELSE NewNode(NoPath)]

\* ------------------------------------------------- string helpers (search)
IsSpace(c) == c = " "
lower(c) == CASE c = "A" -> "a" [] c = "B" -> "b" [] OTHER -> c
Lower(s) == [i \in 1..Len(s) |-> lower(s[i])]
RECURSIVE LStrip(_)
LStrip(s) == IF s # <<>> /\ IsSpace(Head(s)) THEN LStrip(Tail(s)) ELSE s
RECURSIVE RStrip(_)
RStrip(s) ==
    IF s # <<>> /\ IsSpace(s[Len(s)]) THEN RStrip(SubSeq(s, 1, Len(s) - 1)) ELSE s
strip(s) == RStrip(LStrip(s))
\* Python "q in s" on strings
Contains(s, q) ==
    \E i \in 1..(Len(s) - Len(q) + 1) : SubSeq(s, i, i + Len(q) - 1) = q

\* ------------------------------------------------- initial state
Init ==
    /\ nodes = [i \in NodeIds |-> NewNode(NoPath)]
    /\ nalloc = 0
    /\ head = Null
    /\ tail = Null
    /\ song_map = <<>>
    /\ history = <<>>
    /\ upcoming = <<>>
    /\ current_song_node = Null
    /\ is_playing = FALSE
    /\ is_paused = FALSE
    /\ playlist_box = <<>>
    /\ selection = 0
    /\ button = "Play"
    /\ eng = "idle"
    /\ pending = 0

\* ------------------------------------------------- pygame.mixer.music
\* The mixer as the handlers see it: what stop(), pause() and unpause() do
\* to the playback.  The end event is posted when music plays to its end.
MixerStop(e) == "idle"
MixerPause(e) == IF e = "playing" THEN "paused" ELSE e
MixerUnpause(e) == IF e = "paused" THEN "playing" ELSE e

\* ------------------------------------------------- MusicPlayer.add_songs
\* Faulty variant: no "not in self.song_map" test, every path gets a node
AddOne_no_check(st, file_path) ==
    LET song_name == basename(file_path)
        new_node == st.k + 1
        pl == dll_add_song([n |-> [st.n EXCEPT ![new_node] = NewNode(file_path)],
                            h |-> st.h, t |-> st.t], new_node)
    IN [n |-> pl.n, h |-> pl.h, t |-> pl.t,
        m |-> Append(st.m, [name |-> song_name, node |-> new_node]),
        box |-> Append(st.box, song_name),
        k |-> new_node]

\* The body of the for loop, folded over the paths the dialog returned.
\* st = [n, h, t, m, box, k]: nodes, head, tail, song_map, listbox, nalloc.
AddOne(st, file_path) ==
    LET song_name == basename(file_path)
        new_node == st.k + 1
        pl == dll_add_song([n |-> [st.n EXCEPT ![new_node] = NewNode(file_path)],
                            h |-> st.h, t |-> st.t], new_node)
    IN IF song_name \notin MapKeys(st.m)
       THEN [n |-> pl.n, h |-> pl.h, t |-> pl.t,
             m |-> Append(st.m, [name |-> song_name, node |-> new_node]),
             box |-> Append(st.box, song_name),
             k |-> new_node]
       ELSE st

RECURSIVE AddLoop(_, _)
AddLoop(st, file_paths) ==
    IF file_paths = <<>> THEN st
    ELSE AddLoop(AddOne(st, Head(file_paths)), Tail(file_paths))

\* What askopenfilenames can return: up to MaxAdd different files.
PathSeqs ==
    {s \in UNION {[1..k -> Paths] : k \in 0..MaxAdd} :
        \A i, j \in 1..Len(s) : i # j => s[i] # s[j]}
FreshNames(file_paths) ==
    {basename(file_paths[i]) : i \in 1..Len(file_paths)} \ MapKeys(song_map)

AddPaths(file_paths) ==
    /\ nalloc + Cardinality(FreshNames(file_paths)) <= MaxNodes
    /\ LET r == AddLoop([n |-> nodes, h |-> head, t |-> tail, m |-> song_map,
                          box |-> playlist_box, k |-> nalloc], file_paths)
       IN /\ nodes' = r.n
          /\ head' = r.h
          /\ tail' = r.t
          /\ song_map' = r.m
          /\ playlist_box' = r.box
          /\ nalloc' = r.k
    /\ UNCHANGED <<history, upcoming, current_song_node, is_playing,
                   is_paused, selection, button, eng, pending>>

add_songs == \E file_paths \in PathSeqs : AddPaths(file_paths)

\* ------------------------------------------------- MusicPlayer.stop_music
\* Faulty variant: stopping also forgets the current track
stop_music_clears_current ==
    /\ eng' = MixerStop(eng)
    /\ is_playing' = FALSE
    /\ is_paused' = FALSE
    /\ button' = "Play"
    /\ current_song_node' = Null
    /\ UNCHANGED <<storeVars, history, upcoming, selection, pending>>

stop_music ==
    /\ eng' = MixerStop(eng)
    /\ is_playing' = FALSE
    /\ is_paused' = FALSE
    /\ button' = "Play"
    /\ UNCHANGED <<storeVars, history, upcoming, current_song_node, selection,
                   pending>>

\* ------------------------------------------------- MusicPlayer.delete_song
\* The node the handler resolves the selected listbox item to (Null: none).
DeleteTarget ==
    IF selection = 0 THEN Null ELSE MapGet(song_map, playlist_box[selection])

\* Faulty variant: the current track is stopped but stays the current track
StopIfCurrent_keeps_current(node_to_delete) ==
    IF current_song_node = node_to_delete
    THEN /\ eng' = MixerStop(eng)
         /\ is_playing' = FALSE
         /\ is_paused' = FALSE
         /\ button' = "Play"
         /\ UNCHANGED current_song_node
    ELSE UNCHANGED <<eng, is_playing, is_paused, button, current_song_node>>

\* Faulty variant: the current track is forgotten without stopping the playback
StopIfCurrent_no_stop(node_to_delete) ==
    /\ current_song_node' = IF current_song_node = node_to_delete
                            THEN Null ELSE current_song_node
    /\ UNCHANGED <<eng, is_playing, is_paused, button>>

\* "If it's playing, stop it": stop_music(), then current_song_node = None.
StopIfCurrent(node_to_delete) ==
    IF current_song_node = node_to_delete
    THEN /\ eng' = MixerStop(eng)
         /\ is_playing' = FALSE
         /\ is_paused' = FALSE
         /\ button' = "Play"
         /\ current_song_node' = Null
    ELSE UNCHANGED <<eng, is_playing, is_paused, button, current_song_node>>

delete_song ==
    IF selection = 0
    THEN \* IndexError: "No Selection" warning
         UNCHANGED vars
    ELSE LET song_name == playlist_box[selection]
             node_to_delete == MapGet(song_map, song_name)
             pl == dll_delete_song([n |-> nodes, h |-> head, t |-> tail],
                                   node_to_delete)
         IN IF node_to_delete # Null
            THEN /\ StopIfCurrent(node_to_delete)
                 /\ nodes' = Collect(pl.n, pl.h, history, current_song_node')
                 /\ head' = pl.h
                 /\ tail' = pl.t
                 /\ song_map' = MapDel(song_map, song_name)
                 /\ playlist_box' = BoxDelete(playlist_box, selection)
                 /\ selection' = 0
                 /\ UNCHANGED <<nalloc, history, upcoming, pending>>
            ELSE UNCHANGED vars

\* ------------------------------------------------- MusicPlayer.clear_playlist
\* Faulty variant: everything is cleared but the playback is not stopped
clear_playlist_no_stop ==
    LET pl == dll_clear([n |-> nodes, h |-> head, t |-> tail])
    IN /\ nodes' = Collect(pl.n, pl.h, <<>>, Null)
       /\ head' = pl.h
       /\ tail' = pl.t
       /\ song_map' = <<>>
       /\ history' = <<>>
       /\ upcoming' = <<>>
       /\ current_song_node' = Null
       /\ playlist_box' = <<>>
       /\ selection' = 0
       /\ UNCHANGED <<nalloc, pending, eng, is_playing, is_paused, button>>

clear_playlist ==
    LET pl == dll_clear([n |-> nodes, h |-> head, t |-> tail])
    IN \* stop_music()
       /\ eng' = MixerStop(eng)
       /\ is_playing' = FALSE
       /\ is_paused' = FALSE
       /\ nodes' = Collect(pl.n, pl.h, <<>>, Null)
       /\ head' = pl.h
       /\ tail' = pl.t
       /\ song_map' = <<>>
       /\ history' = <<>>
       /\ upcoming' = <<>>
       /\ current_song_node' = Null
       /\ playlist_box' = <<>>
       /\ selection' = 0
       /\ button' = "Play"
       /\ UNCHANGED <<nalloc, pending>>

\* ------------------------------------------------- MusicPlayer.play_from_node
\* Faulty variant: the except branch does not reset the flags and the button
play_from_node_flags_kept(node, cur, ok, engFail, eng0) ==
    IF node = Null
    THEN eng' = eng0 /\ UNCHANGED <<is_playing, is_paused, button, selection>>
    ELSE IF ok
         THEN /\ eng' = "playing"
              /\ is_playing' = TRUE
              /\ is_paused' = FALSE
              /\ button' = "Pause"
              /\ LET index == IF cur = Null THEN 0
                              ELSE IndexOf(playlist_box, NameOf(cur))
                 IN selection' = IF index # 0 THEN index ELSE selection
         ELSE /\ eng' = engFail
              /\ UNCHANGED <<is_playing, is_paused, button, selection>>

\* node: the argument; cur: self.current_song_node when it is called;
\* ok: whether load() and play() succeed; eng0: the mixer as the caller left
\* it; engFail: the mixer after pygame.error (load() raising leaves the old
\* music alone, play() raising comes after the old music was freed).
play_from_node(node, cur, ok, engFail, eng0) ==
    IF node = Null
    THEN /\ eng' = eng0
         /\ UNCHANGED <<is_playing, is_paused, button, selection>>
    ELSE IF ok
    THEN /\ eng' = "playing"
         /\ is_playing' = TRUE
         /\ is_paused' = FALSE
         /\ button' = "Pause"
         \* highlight_current_song also selects the item it finds
         /\ LET index == IF cur = Null THEN 0
                         ELSE IndexOf(playlist_box, NameOf(cur))
            IN selection' = IF index # 0 THEN index ELSE selection
    ELSE /\ eng' = engFail
         /\ is_playing' = FALSE
         /\ is_paused' = FALSE
         /\ button' = "Play"
         /\ UNCHANGED selection

\* ------------------------------------------------- MusicPlayer.play_music
\* The resume / pause arms shared by the two halves of play_music.
Resume ==
    /\ eng' = MixerUnpause(eng)
    /\ is_playing' = TRUE
    /\ is_paused' = FALSE
    /\ button' = "Pause"
    /\ UNCHANGED <<storeVars, history, upcoming, current_song_node, selection,
                   pending>>

\* Faulty variant: pausing stops, is_paused is not set
Pause_not_flagged ==
    /\ eng' = MixerPause(eng)
    /\ is_playing' = FALSE
    /\ is_paused' = FALSE
    /\ button' = "Play"
    /\ UNCHANGED <<storeVars, history, upcoming, current_song_node, selection,
                   pending>>

Pause ==
    /\ eng' = MixerPause(eng)
    /\ is_playing' = FALSE
    /\ is_paused' = TRUE
    /\ button' = "Play"
    /\ UNCHANGED <<storeVars, history, upcoming, current_song_node, selection,
                   pending>>

\* The node play_music resolves the selected listbox item to (Null: none).
SelectedNode ==
    IF selection = 0 THEN Null ELSE MapGet(song_map, playlist_box[selection])

\* Faulty variant: the old track is pushed only "if a song was playing"
PlayMusic_push_if_active(ok) ==
    IF selection = 0
    THEN \* curselection()[0] raises IndexError
         IF is_paused THEN Resume
         ELSE IF is_playing THEN Pause
         ELSE \* "No Selection" warning
              UNCHANGED vars
    ELSE LET selected_node == MapGet(song_map, playlist_box[selection])
         IN IF current_song_node = selected_node
            THEN IF is_paused THEN Resume
                 ELSE IF is_playing THEN Pause
                 ELSE \E engFail \in {eng, "idle"} :
                        /\ play_from_node(selected_node, current_song_node, ok,
                                          engFail, eng)
                        /\ UNCHANGED <<storeVars, history, upcoming,
                                       current_song_node, pending>>
            ELSE /\ current_song_node # Null => Len(history) < MaxHist
                 /\ history' = IF current_song_node # Null
                                  /\ (is_playing \/ is_paused)
                               THEN Append(history, current_song_node)
                               ELSE history
                 /\ current_song_node' = selected_node
                 /\ play_from_node(selected_node, selected_node, ok,
                                   MixerStop(eng), MixerStop(eng))
                 /\ UNCHANGED <<storeVars, upcoming, pending>>

\* play_music when the load succeeds (ok) or raises pygame.error (~ok).
PlayMusic(ok) ==
    IF selection = 0
    THEN \* curselection()[0] raises IndexError
         IF is_paused THEN Resume
         ELSE IF is_playing THEN Pause
         ELSE \* "No Selection" warning
              UNCHANGED vars
    ELSE LET selected_node == MapGet(song_map, playlist_box[selection])
         IN IF current_song_node = selected_node
            THEN IF is_paused THEN Resume
                 ELSE IF is_playing THEN Pause
                 ELSE \E engFail \in {eng, "idle"} :
                        /\ play_from_node(selected_node, current_song_node, ok,
                                          engFail, eng)
                        /\ UNCHANGED <<storeVars, history, upcoming,
                                       current_song_node, pending>>
            ELSE /\ current_song_node # Null => Len(history) < MaxHist
                 /\ history' = IF current_song_node # Null
                               THEN Append(history, current_song_node)
                               ELSE history
                 /\ current_song_node' = selected_node
                 /\ play_from_node(selected_node, selected_node, ok,
                                   MixerStop(eng), MixerStop(eng))
                 /\ UNCHANGED <<storeVars, upcoming, pending>>

play_music == \E ok \in BOOLEAN : PlayMusic(ok)

\* ------------------------------------------------- MusicPlayer.next_song
\* Which of its three arms next_song takes.
NextOutcome ==
    IF current_song_node = Null THEN "NoCurrentTrack"
    ELSE IF nodes[current_song_node].next = Null THEN "EndOfPlaylist"
    ELSE "Advance"

\* Faulty variant: the end-of-playlist check is missing
NextSong_no_end_check(ok) ==
    IF NextOutcome = "NoCurrentTrack"
    THEN UNCHANGED vars
    ELSE \E engFail \in {eng, "idle"} :
           /\ Len(history) < MaxHist
           /\ history' = Append(history, current_song_node)
           /\ current_song_node' = nodes[current_song_node].next
           /\ play_from_node(current_song_node', current_song_node', ok,
                             engFail, eng)
           /\ UNCHANGED <<storeVars, upcoming, pending>>

NextSong(ok) ==
    IF NextOutcome = "NoCurrentTrack"
    THEN \* "No Song" warning
         UNCHANGED vars
    ELSE IF NextOutcome = "EndOfPlaylist"
    THEN \* "End of Playlist" message
         UNCHANGED vars
    ELSE \E engFail \in {eng, "idle"} :
           /\ Len(history) < MaxHist
           /\ history' = Append(history, current_song_node)
           /\ current_song_node' = nodes[current_song_node].next
           /\ play_from_node(current_song_node', current_song_node', ok,
                             engFail, eng)
           /\ UNCHANGED <<storeVars, upcoming, pending>>

next_song == \E ok \in BOOLEAN : NextSong(ok)

\* ------------------------------------------------- MusicPlayer.prev_song
\* Faulty variant: the top of the history is read but not popped
PrevSong_no_pop(ok) ==
    IF history = <<>>
    THEN UNCHANGED vars
    ELSE \E engFail \in {eng, "idle"} :
           /\ current_song_node' = history[Len(history)]
           /\ UNCHANGED history
           /\ play_from_node(current_song_node', current_song_node', ok,
                             engFail, eng)
           /\ nodes' = Collect(nodes, head, history', current_song_node')
           /\ UNCHANGED <<nalloc, head, tail, song_map, playlist_box, upcoming,
                          pending>>

\* Faulty variant: the track being left is pushed, as next_song does
PrevSong_pushes_left(ok) ==
    IF history = <<>>
    THEN UNCHANGED vars
    ELSE \E engFail \in {eng, "idle"} :
           /\ current_song_node' = history[Len(history)]
           /\ history' =
                IF current_song_node = Null
                THEN SubSeq(history, 1, Len(history) - 1)
                ELSE Append(SubSeq(history, 1, Len(history) - 1),
                            current_song_node)
           /\ play_from_node(current_song_node', current_song_node', ok,
                             engFail, eng)
           /\ nodes' = Collect(nodes, head, history', current_song_node')
           /\ UNCHANGED <<nalloc, head, tail, song_map, playlist_box,
                          upcoming, pending>>

PrevSong(ok) ==
    IF history = <<>>
    THEN \* "No History" message
         UNCHANGED vars
    ELSE \E engFail \in {eng, "idle"} :
           /\ current_song_node' = history[Len(history)]
           /\ history' = SubSeq(history, 1, Len(history) - 1)
           /\ play_from_node(current_song_node', current_song_node', ok,
                             engFail, eng)
           /\ nodes' = Collect(nodes, head, history', current_song_node')
           /\ UNCHANGED <<nalloc, head, tail, song_map, playlist_box, upcoming,
                          pending>>

prev_song == \E ok \in BOOLEAN : PrevSong(ok)

\* ------------------------------------------------- MusicPlayer.search_song
\* The first key, in dict order, that contains the query case-insensitively.
PartialMatch(m, query) ==
    LET hits == {i \in 1..Len(m) : Contains(Lower(m[i].name), Lower(query))}
    IN IF hits = {} THEN Null
       ELSE m[CHOOSE i \in hits : \A j \in hits : i <= j].node

\* The node search_song finds for the text of the search entry (Null: none).
FoundNode(text) ==
    LET query == strip(text)
        exact == MapGet(song_map, query)
    IN IF query = <<>> THEN Null
       ELSE IF exact # Null THEN exact
       ELSE PartialMatch(song_map, query)

\* Faulty variant: the found track is also played, as a selection would be
SearchText_plays(text) ==
    LET found_node == FoundNode(text)
        index == IF found_node = Null THEN 0
                 ELSE IndexOf(playlist_box, NameOf(found_node))
    IN IF index = 0
       THEN UNCHANGED vars
       ELSE /\ selection' = index
            /\ current_song_node' = found_node
            /\ eng' = "playing"
            /\ is_playing' = TRUE
            /\ is_paused' = FALSE
            /\ button' = "Pause"
            /\ nodes' = Collect(nodes, head, history, found_node)
            /\ UNCHANGED <<nalloc, head, tail, song_map, playlist_box,
                           history, upcoming, pending>>

SearchText(text) ==
    LET found_node == FoundNode(text)
        index == IF found_node = Null THEN 0
                 ELSE IndexOf(playlist_box, NameOf(found_node))
    IN /\ UNCHANGED <<storeVars, history, upcoming, current_song_node,
                      is_playing, is_paused, button, engVars>>
       /\ selection' = IF index # 0 THEN index ELSE selection

search_song == \E text \in Queries : SearchText(text)

\* ------------------------------------------------- MusicPlayer.check_music_event
\* Faulty variant: the commented-out "auto-play next" moves to the successor
check_music_event_auto_next ==
    /\ IF pending > 0
       THEN /\ is_playing' = FALSE
            /\ is_paused' = FALSE
            /\ button' = "Play"
            /\ current_song_node' =
                 IF current_song_node # Null
                    /\ nodes[current_song_node].next # Null
                 THEN nodes[current_song_node].next
                 ELSE current_song_node
       ELSE UNCHANGED <<is_playing, is_paused, button, current_song_node>>
    /\ pending' = 0
    /\ UNCHANGED <<storeVars, history, upcoming, selection, eng>>

\* Faulty variant: the timer is re-armed only while a track is active
check_music_event_polls_while_active ==
    /\ is_playing \/ is_paused
    /\ IF pending > 0
       THEN /\ is_playing' = FALSE
            /\ is_paused' = FALSE
            /\ button' = "Play"
       ELSE UNCHANGED <<is_playing, is_paused, button>>
    /\ pending' = 0
    /\ UNCHANGED <<storeVars, history, upcoming, current_song_node, selection,
                   eng>>

\* One scheduler tick: drain the event queue, apply every SONG_END_EVENT,
\* re-arm the 100 ms timer (so the tick is always enabled).
check_music_event ==
    /\ IF pending > 0
       THEN /\ is_playing' = FALSE
            /\ is_paused' = FALSE
            /\ button' = "Play"
       ELSE UNCHANGED <<is_playing, is_paused, button>>
    /\ pending' = 0
    /\ UNCHANGED <<storeVars, history, upcoming, current_song_node, selection,
                   eng>>

\* ------------------------------------------------- environment
\* The mixer reaches the end of the music it is playing and posts the end
\* event registered with set_endevent.
TrackFinished ==
    /\ eng = "playing"
    /\ pending < MaxPending
    /\ eng' = "idle"
    /\ pending' = pending + 1
    /\ UNCHANGED <<storeVars, history, upcoming, current_song_node, is_playing,
                   is_paused, selection, button>>

\* The user clicks a listbox item (the Listbox's default browse mode).
SelectItem ==
    \E i \in 1..Len(playlist_box) :
        /\ selection' = i
        /\ UNCHANGED <<storeVars, history, upcoming, current_song_node,
                       is_playing, is_paused, button, engVars>>

\* The listbox loses the selection (it exports its selection, so selecting
\* text in the search entry clears it).
ClearSelection ==
    /\ selection # 0
    /\ selection' = 0
    /\ UNCHANGED <<storeVars, history, upcoming, current_song_node,
                   is_playing, is_paused, button, engVars>>

Next ==
    \/ add_songs
    \/ delete_song
    \/ clear_playlist
    \/ play_music
    \/ stop_music
    \/ next_song
    \/ prev_song
    \/ search_song
    \/ check_music_event
    \/ TrackFinished
    \/ SelectItem
    \/ ClearSelection

Spec == Init /\ [][Next]_vars

\* check_music_event re-arms its 100 ms timer before it returns, on every
\* path and whatever the flags are, and Tk's main loop runs due timers: a
\* tick that has something to do is not postponed for ever.
FairSpec == Spec /\ WF_vars(check_music_event)

\* ------------------------------------------------- derived views
\* The playback mode the two flags encode.
Mode == IF is_playing THEN "Playing" ELSE IF is_paused THEN "Paused" ELSE "Stopped"
\* Names of the linked tracks, head to tail.
LinkedNames == [i \in 1..Len(Linked) |-> NameOf(Linked[i])]
\* Nodes that are still referenced (from the history or as current track)
\* although they were unlinked from the playlist.
Stale == {i \in NodeIds : nodes[i].data # NoPath /\ i \notin LinkedSet}

\* ------------------------------------------------- C1
\* C1: in every reachable state current_song_node is None or a node that is
\* linked in the playlist (reachable from head).
C1_CurrentIsLinked ==
    current_song_node = Null \/ current_song_node \in LinkedSet

\* ------------------------------------------------- C2
\* The keys of song_map are exactly the names of the linked tracks.
IndexMatchesStore == MapKeys(song_map) = {NameOf(n) : n \in LinkedSet}

\* C2: in every reachable state the key set of song_map equals the set of
\* names of the linked tracks, and only add_songs, delete_song and
\* clear_playlist change the index or the linked sequence.
C2_IndexSync ==
    /\ []IndexMatchesStore
    /\ [][(song_map' # song_map \/ Linked' # Linked)
            => (add_songs \/ delete_song \/ clear_playlist)]_vars

\* A track was removed and a name was re-added: two keys are in the index
\* while an unlinked node still carries the name of one of them.
C2_Witness ==
    /\ Len(song_map) >= 2
    /\ \E s \in Stale : NameOf(s) \in MapKeys(song_map)

\* ------------------------------------------------- C3
\* C3: the playlist is empty (head and tail both None), or head has no
\* predecessor, tail has no successor, tail is reached from head by next
\* links, and every next/prev link between linked nodes is mutual.
C3_DllConsistent ==
    \/ head = Null /\ tail = Null
    \/ /\ head # Null
       /\ tail # Null
       /\ nodes[head].prev = Null
       /\ nodes[tail].next = Null
       /\ Len(Linked) <= MaxNodes
       /\ Linked[Len(Linked)] = tail
       /\ \A t \in LinkedSet :
            /\ nodes[t].next # Null => nodes[nodes[t].next].prev = t
            /\ nodes[t].prev # Null => nodes[nodes[t].prev].next = t

\* An interior or boundary node was unlinked (it is still referenced) and
\* its name was added again: the list holds two nodes around the gap.
C3_Witness ==
    /\ Len(Linked) >= 2
    /\ \E s \in Stale : NameOf(s) \in MapKeys(song_map)
    /\ \E s \in Stale : nodes[s].next = Null /\ nodes[s].prev = Null

\* ------------------------------------------------- C4
\* While the mixer is playing, every queued end event was raised by a
\* playback that ended before the present one was started (a mixer that
\* finished is idle until a later play()): the events are stale.
StaleEventsPending == pending > 0 /\ eng = "playing"

\* C4: a scheduler tick that finds only stale end events queued while the
\* current track is playing does not apply them: the mode stays Playing.
C4_StaleEventDiscarded ==
    [][(check_music_event /\ StaleEventsPending /\ Mode = "Playing")
        => Mode' = "Playing"]_vars

\* ------------------------------------------------- C5
\* The user intents (commands), as opposed to ticks and mixer events.
Command ==
    \/ add_songs
    \/ delete_song
    \/ clear_playlist
    \/ play_music
    \/ stop_music
    \/ next_song
    \/ prev_song
    \/ search_song

\* C5 as stated: a current track in mode Stopped exists only between an end
\* of track and the next command, so no command ends in mode Stopped with
\* a current track (in particular not Stop, not a failed play).
C5_CurrentOnlyWhileActive ==
    [][(Command /\ Mode' = "Stopped") => current_song_node' = Null]_vars

\* play_music reaches play_from_node: an item is selected and it is another
\* track, or the current one while stopped.
PlayReachesLoad ==
    /\ selection # 0
    /\ SelectedNode = current_song_node => ~is_paused /\ ~is_playing

\* A step in which load()/play() raised pygame.error inside play_from_node.
FailedPlay ==
    \/ PlayReachesLoad /\ PlayMusic(FALSE)
    \/ NextOutcome = "Advance" /\ NextSong(FALSE)
    \/ history # <<>> /\ PrevSong(FALSE)

StoppedWithCurrent == Mode = "Stopped" /\ current_song_node # Null

\* C5 (amended): a state with a current track in mode Stopped is entered,
\* or its current track replaced, only by an end-of-track tick, by Stop or
\* by a failed play; so a current track exists only in mode Playing or
\* Paused or in a Stopped mode that one of these three produced.
C5_StoppedCurrentOrigin ==
    [][(StoppedWithCurrent'
          /\ (~StoppedWithCurrent \/ current_song_node' # current_song_node))
        => (check_music_event \/ stop_music \/ FailedPlay)]_vars

\* Stop is about to act on a playing current track, which it retains.
C5_Witness ==
    /\ Mode = "Playing"
    /\ current_song_node \in LinkedSet
    /\ ENABLED (stop_music /\ StoppedWithCurrent')

\* ------------------------------------------------- C6
\* C6: clear_playlist ends with the playlist, the index and the history
\* empty, no current track and mode Stopped, whatever state it starts in.
C6_ClearAllEmpties ==
    [][clear_playlist =>
         /\ head' = Null
         /\ tail' = Null
         /\ Linked' = <<>>
         /\ song_map' = <<>>
         /\ history' = <<>>
         /\ upcoming' = <<>>
         /\ current_song_node' = Null
         /\ Mode' = "Stopped"]_vars

\* Three tracks are loaded, the history is full and a track is paused:
\* clear_playlist acts on all of it.
C6_Witness ==
    /\ Len(Linked) = 3
    /\ Len(history) = MaxHist
    /\ Mode = "Paused"
    /\ current_song_node # Null
    /\ ENABLED (clear_playlist /\ Linked' = <<>> /\ history' = <<>>)

\* ------------------------------------------------- C7
\* The playlist holds exactly a, b, c in that order.
StoreIsABC == LinkedNames = <<NameA, NameB, NameC>>
\* The current track is the linked track of that name.
CurrentIs(name) ==
    current_song_node # Null /\ current_song_node = MapGet(song_map, name)
\* The history holds the linked tracks of these names, oldest first.
HistoryIs(names) ==
    history = [i \in 1..Len(names) |-> MapGet(song_map, names[i])]
Selected(name) == selection # 0 /\ playlist_box[selection] = name

\* C7: on the playlist a, b, c with all loads succeeding, PlaySelected(a)
\* from no current track gives Playing, current a, empty history; then
\* PlaySelected(b) gives current b, history [a]; then Next gives current c,
\* history [a, b]; then Previous gives current b, history [a], Playing.
C7_Scenario ==
    /\ [][(StoreIsABC /\ current_song_node = Null /\ history = <<>>
             /\ Selected(NameA) /\ PlayMusic(TRUE))
           => (Mode' = "Playing" /\ CurrentIs(NameA)' /\ history' = <<>>)]_vars
    /\ [][(StoreIsABC /\ CurrentIs(NameA) /\ history = <<>>
             /\ Selected(NameB) /\ PlayMusic(TRUE))
           => (Mode' = "Playing" /\ CurrentIs(NameB)'
               /\ HistoryIs(<<NameA>>)')]_vars
    /\ [][(StoreIsABC /\ CurrentIs(NameB) /\ HistoryIs(<<NameA>>)
             /\ NextSong(TRUE))
           => (Mode' = "Playing" /\ CurrentIs(NameC)'
               /\ HistoryIs(<<NameA, NameB>>)')]_vars
    /\ [][(StoreIsABC /\ CurrentIs(NameC) /\ HistoryIs(<<NameA, NameB>>)
             /\ PrevSong(TRUE))
           => (Mode' = "Playing" /\ CurrentIs(NameB)'
               /\ HistoryIs(<<NameA>>)')]_vars

\* The state before the last step of the scenario: on a, b, c the current
\* track is c with history [a, b], and Previous brings b back.
C7_Witness ==
    /\ StoreIsABC
    /\ CurrentIs(NameC)
    /\ HistoryIs(<<NameA, NameB>>)
    /\ Mode = "Playing"
    /\ ENABLED (PrevSong(TRUE) /\ CurrentIs(NameB)')

\* ------------------------------------------------- C8
\* C8: Next with no current track (NoCurrentTrack) or with a current track
\* that has no successor (EndOfPlaylist) changes nothing: flags, current
\* track, history, playlist, index and mixer stay as they were.
C8_NextFailureIsNoOp ==
    [][(next_song /\ NextOutcome \in {"NoCurrentTrack", "EndOfPlaylist"})
        => UNCHANGED <<is_playing, is_paused, current_song_node, history,
                       nodes, head, tail, song_map, playlist_box, eng,
                       pending, selection, button>>]_vars

\* The current track is the tail of a playlist of two or more tracks and is
\* playing, there is room in the history, and Next is issued.
C8_Witness ==
    /\ Len(Linked) >= 2
    /\ current_song_node = tail
    /\ NextOutcome = "EndOfPlaylist"
    /\ Mode = "Playing"
    /\ Len(history) < MaxHist
    /\ ENABLED next_song

\* ------------------------------------------------- C9
\* The sequence without one element.
Without(seq, x) == SelectSeq(seq, LAMBDA e : e # x)

\* C9: delete_song on the listbox item of the current track ends in mode
\* Stopped with no current track, the track gone from the playlist and
\* its name from the index, and the other tracks linked in the same order.
C9_DeleteCurrent ==
    [][(delete_song /\ DeleteTarget # Null /\ DeleteTarget = current_song_node)
        => /\ Mode' = "Stopped"
           /\ current_song_node' = Null
           /\ current_song_node \notin LinkedSet'
           /\ playlist_box[selection] \notin MapKeys(song_map')
           /\ Linked' = Without(Linked, current_song_node)
           /\ LinkedNames' = Without(LinkedNames, playlist_box[selection])]_vars

\* The current track is the middle one of three and is paused when its
\* listbox item is selected for deletion.
C9_Witness ==
    /\ Len(Linked) = 3
    /\ current_song_node = Linked[2]
    /\ DeleteTarget = current_song_node
    /\ Mode = "Paused"
    /\ ENABLED (delete_song /\ Len(Linked') = 2)

\* ------------------------------------------------- C10
\* Nothing is left for stop_music to change.
StopIsNoOp == ~ENABLED <<stop_music>>_vars
\* The state stop_music leaves behind.
AfterStop == eng = "idle" /\ ~is_playing /\ ~is_paused /\ button = "Play"

\* C10: stop_music sets mode Stopped and keeps the current track, the
\* history, the playlist and the index; the state it leaves is one in which
\* a second stop_music changes nothing.
C10_StopRetainsCurrent ==
    /\ [][stop_music =>
            /\ Mode' = "Stopped"
            /\ AfterStop'
            /\ UNCHANGED <<current_song_node, history, nodes, head, tail,
                           song_map, playlist_box>>]_vars
    /\ [](AfterStop => StopIsNoOp)

\* Stop is about to act on a paused current track with a history.
C10_Witness ==
    /\ Mode = "Paused"
    /\ current_song_node # Null
    /\ history # <<>>
    /\ ENABLED (stop_music /\ Mode' = "Stopped" /\ current_song_node' # Null)

\* ------------------------------------------------- C11
\* The handlers that may replace the current track.
CurrentChangers ==
    \/ play_music
    \/ next_song
    \/ prev_song
    \/ delete_song
    \/ clear_playlist

\* C11: a tick that finds an end event queued ends in mode Stopped and
\* leaves the current track, the history, the playlist and the index as they
\* were; the current track changes only in a step of play_music, next_song,
\* prev_song, delete_song or clear_playlist, never in a tick.
C11_TickOnlyStops ==
    /\ [][(check_music_event /\ pending > 0)
           => /\ Mode' = "Stopped"
              /\ UNCHANGED <<current_song_node, history, nodes, head, tail,
                             song_map, playlist_box>>]_vars
    /\ [][current_song_node' # current_song_node => CurrentChangers]_vars

\* A track with a successor has played to its end, the end event is queued
\* and the flags still say Playing: the tick is about to deliver the event.
C11_Witness ==
    /\ Mode = "Playing"
    /\ pending > 0
    /\ eng = "idle"
    /\ current_song_node \in LinkedSet
    /\ nodes[current_song_node].next # Null
    /\ ENABLED (check_music_event /\ Mode' = "Stopped"
                /\ current_song_node' # Null)

\* ------------------------------------------------- C12
\* C12: when load()/play() raises inside play_from_node, whichever of
\* play_music, next_song or prev_song called it, the step ends in mode
\* Stopped whatever the mode was, the current track is the track that failed
\* to load, the history keeps the push or pop the caller made before the
\* call, and only a later play_music, next_song or prev_song step brings the
\* mode back to Playing (nothing retries the load).
C12_FailedPlayStops ==
    [][/\ FailedPlay => (Mode' = "Stopped" /\ current_song_node' # Null)
       /\ (PlayReachesLoad /\ PlayMusic(FALSE))
            => /\ current_song_node' = SelectedNode
               /\ history' = IF current_song_node \in {Null, SelectedNode}
                             THEN history
                             ELSE Append(history, current_song_node)
       /\ (NextOutcome = "Advance" /\ NextSong(FALSE))
            => /\ current_song_node' = nodes[current_song_node].next
               /\ history' = Append(history, current_song_node)
       /\ (history # <<>> /\ PrevSong(FALSE))
            => /\ current_song_node' = history[Len(history)]
               /\ history' = SubSeq(history, 1, Len(history) - 1)
       /\ (Mode # "Playing" /\ Mode' = "Playing")
            => (play_music \/ next_song \/ prev_song)]_vars

\* A track with a successor is playing and Next is issued; the load of the
\* successor is about to fail.
C12_Witness ==
    /\ Mode = "Playing"
    /\ NextOutcome = "Advance"
    /\ Len(history) < MaxHist
    /\ ENABLED (NextSong(FALSE) /\ Mode' = "Stopped"
                /\ current_song_node' # current_song_node
                /\ Len(history') = Len(history) + 1)

\* ------------------------------------------------- C13
\* C13: prev_song with an empty history ("No History") changes nothing;
\* with a non-empty history it makes the top entry the current track and
\* removes that one entry, the entries below it staying in order and the
\* track being left not being pushed, the playlist and the index stay as
\* they were, and when the load succeeds the mode is Playing.
C13_PreviousPops ==
    [][/\ (prev_song /\ history = <<>>)
            => UNCHANGED <<is_playing, is_paused, current_song_node, history,
                           nodes, head, tail, song_map, playlist_box, eng,
                           pending, selection, button>>
       /\ (prev_song /\ history # <<>>)
            => /\ current_song_node' = history[Len(history)]
               /\ Len(history') = Len(history) - 1
               /\ history' = SubSeq(history, 1, Len(history) - 1)
               /\ Linked' = Linked
               /\ song_map' = song_map
       /\ (PrevSong(TRUE) /\ history # <<>>) => Mode' = "Playing"]_vars

\* Two entries are in the history, another track is current and paused,
\* and Previous is issued with a load that succeeds.
C13_Witness ==
    /\ Len(history) = 2
    /\ current_song_node # Null
    /\ current_song_node # history[2]
    /\ Mode = "Paused"
    /\ ENABLED (PrevSong(TRUE) /\ Mode' = "Playing"
                /\ history' = <<history[1]>>)

\* ------------------------------------------------- C14
\* The selected listbox item resolves to a track other than the current one.
OtherSelected == selection # 0 /\ SelectedNode # current_song_node

RECURSIVE NewNames(_, _)
NewNames(known, file_paths) ==
    IF file_paths = <<>> THEN <<>>
    ELSE LET song_name == basename(Head(file_paths))
         IN IF song_name \in known
            THEN NewNames(known, Tail(file_paths))
            ELSE <<song_name>>
                 \o NewNames(known \cup {song_name}, Tail(file_paths))

\* The state of the playlist, the index and the listbox as add_songs sees it.
AddState ==
    [n |-> nodes, h |-> head, t |-> tail, m |-> song_map,
     box |-> playlist_box, k |-> nalloc]

\* Running the loop of add_songs over paths whose names are all in the
\* index changes nothing, and running it a second time over any paths
\* gives what the first run gave.
AddTwiceIsAddOnce ==
    \A file_paths \in PathSeqs :
       nalloc + Cardinality(FreshNames(file_paths)) <= MaxNodes
         => LET once == AddLoop(AddState, file_paths)
            IN /\ FreshNames(file_paths) = {} => once = AddState
               /\ AddLoop(once, file_paths) = once

\* No name is carried by two linked nodes.
NoNameTwice ==
    \A i, j \in 1..Len(Linked) :
       i # j => NameOf(Linked[i]) # NameOf(Linked[j])

\* C15: add_songs skips every path whose basename is already a key of the
\* index: a call whose paths are all known changes nothing, a second call
\* with the same paths adds nothing to the first, no name is ever on two
\* linked tracks, and a call that adds tracks leaves the history, the
\* current track and the mode alone and links the new names behind the old
\* tail in the order of the paths, the tracks before them staying in place.
C15_AddSkipsKnown ==
    /\ []AddTwiceIsAddOnce
    /\ []NoNameTwice
    /\ [][nalloc' # nalloc =>
            \A file_paths \in PathSeqs : AddPaths(file_paths) =>
               /\ UNCHANGED <<history, current_song_node, is_playing,
                              is_paused>>
               /\ FreshNames(file_paths)' = {}
               /\ LinkedNames' = LinkedNames
                                   \o NewNames(MapKeys(song_map), file_paths)
               /\ SubSeq(Linked', 1, Len(Linked)) = Linked
               /\ MapKeys(song_map') = MapKeys(song_map)
                                         \cup FreshNames(file_paths)]_vars

\* A track is current, and the dialog returns a path whose name is in the
\* index (under another directory) followed by one whose name is new.
C15_Witness ==
    /\ current_song_node # Null
    /\ Len(Linked) >= 1
    /\ \E file_paths \in PathSeqs :
          /\ Len(file_paths) = 2
          /\ basename(file_paths[1]) \in MapKeys(song_map)
          /\ NameOf(MapGet(song_map, basename(file_paths[1])))
               = basename(file_paths[1])
          /\ nodes[MapGet(song_map, basename(file_paths[1]))].data
               # file_paths[1]
          /\ basename(file_paths[2]) \notin MapKeys(song_map)
          /\ ENABLED (AddPaths(file_paths) /\ Len(Linked') = Len(Linked) + 1)

\* ------------------------------------------------- C16
\* Nothing is selected, or the selected item is the current track.
ToggleSelected == selection = 0 \/ SelectedNode = current_song_node

\* C16: play_music with nothing selected or with the current track selected
\* turns Playing into Paused and Paused into Playing and leaves the current
\* track, the history, the playlist, the index and the selection as they
\* were, so that a second such play_music is again a toggle and gives the
\* first mode back; with nothing selected in mode Stopped it changes
\* nothing, with or without a current track.
C16_PlayToggles ==
    [][/\ (play_music /\ ToggleSelected /\ Mode = "Playing")
            => Mode' = "Paused"
       /\ (play_music /\ ToggleSelected /\ Mode = "Paused")
            => Mode' = "Playing"
       /\ (play_music /\ ToggleSelected /\ Mode # "Stopped")
            => /\ UNCHANGED <<current_song_node, history, nodes, head, tail,
                              song_map, playlist_box, selection>>
               /\ ToggleSelected'
       /\ (play_music /\ selection = 0 /\ Mode = "Stopped")
            => UNCHANGED <<is_playing, is_paused, current_song_node, history,
                           nodes, head, tail, song_map, playlist_box, eng,
                           pending, selection, button>>]_vars

\* The current track is selected and playing with a history behind it:
\* play_music is about to pause it.
C16_Witness ==
    /\ Mode = "Playing"
    /\ selection # 0
    /\ SelectedNode = current_song_node
    /\ history # <<>>
    /\ ENABLED (play_music /\ Mode' = "Paused")

\* ------------------------------------------------- C17
\* C17 as stated: search_song, whether it finds a track or not, leaves the
\* playlist, the index, the history, the current track, the mode and the
\* listbox selection (what the next play_music or delete_song acts on) as
\* they were.
C17_SearchChangesNothing ==
    [][search_song =>
         UNCHANGED <<nodes, head, tail, song_map, history, current_song_node,
                     is_playing, is_paused, selection>>]_vars

\* C17 (amended): search_song leaves the playlist, the index, the history,
\* the current track, the mode and the mixer as they were and starts no
\* playback; when it finds a track it selects that track's listbox item, so
\* that the next play_music or delete_song acts on the found track; when it
\* finds none (or the query is blank) the selection stays as it was.
\* (A step that changes nothing satisfies all of this as it stands.)
C17_SearchSelectsFound ==
    [][vars' # vars =>
         \A text \in Queries : SearchText(text) =>
            /\ UNCHANGED <<nodes, head, tail, song_map, playlist_box,
                           history, current_song_node, is_playing, is_paused,
                           eng, pending>>
            /\ FoundNode(text) # Null
                 => /\ selection' # 0
                    /\ SelectedNode' = FoundNode(text)
                    /\ DeleteTarget' = FoundNode(text)
            /\ FoundNode(text) = Null => selection' = selection]_vars

\* A track is playing and selected, and the search text matches another
\* track by a case-insensitive partial match only.
C17_Witness ==
    /\ Mode = "Playing"
    /\ selection # 0
    /\ SelectedNode = current_song_node
    /\ \E text \in Queries :
          /\ MapGet(song_map, strip(text)) = Null
          /\ FoundNode(text) \notin {Null, current_song_node}
          /\ ENABLED (SearchText(text) /\ SelectedNode' = FoundNode(text)
                      /\ selection' # selection)

\* ------------------------------------------------- C18
\* C18: every tick leaves the event queue empty, and with the timer
\* re-armed by every tick (FairSpec) an end event that is queued is
\* consumed by a later tick, also when no track is current and when the
\* mode is Stopped.
C18_TickDrains ==
    /\ [][check_music_event => pending' = 0]_vars
    /\ (pending > 0) ~> (pending = 0)
    /\ (pending > 0 /\ current_song_node = Null) ~> (pending = 0)
    /\ (pending > 0 /\ Mode = "Stopped") ~> (pending = 0)

\* An end event is queued while no track is current and the mode is
\* Stopped (the finished track was deleted before the tick).
C18_Witness ==
    /\ pending > 0
    /\ current_song_node = Null
    /\ Mode = "Stopped"
    /\ head # Null
    /\ ENABLED (check_music_event /\ pending' = 0)

\* ------------------------------------------------- C19
\* C19: is_playing and is_paused are never both true, and in mode Playing
\* or Paused there is a current track.
C19_ActiveHasCurrent ==
    /\ ~(is_playing /\ is_paused)
    /\ Mode \in {"Playing", "Paused"} => current_song_node # Null

\* The current track is paused and it is a track that prev_song brought
\* back after it was deleted from the playlist.
C19_Witness ==
    /\ Mode = "Paused"
    /\ current_song_node # Null
    /\ current_song_node \notin LinkedSet
    /\ head # Null

\* ------------------------------------------------- C20
\* A removed track that is still referenced has neither successor nor
\* predecessor.
StaleHasNoLinks ==
    \A s \in Stale : nodes[s].next = Null /\ nodes[s].prev = Null

\* C20: a next_song that advances starts from a linked track and ends on a
\* linked track; delete_song having reset the removed node's next and prev,
\* next_song on a current track that is no longer linked (brought back by
\* prev_song after its deletion) is the "End of Playlist" case and changes
\* nothing, so the current track never moves to or on from a removed track
\* by next_song.
C20_NextStaysInStore ==
    /\ []StaleHasNoLinks
    /\ [](current_song_node \in Stale => NextOutcome = "EndOfPlaylist")
    /\ [][/\ (next_song /\ NextOutcome = "Advance")
               => /\ current_song_node \in LinkedSet
                  /\ current_song_node' \in LinkedSet'
          /\ (next_song /\ current_song_node \in Stale)
               => UNCHANGED <<is_playing, is_paused, current_song_node,
                              history, nodes, head, tail, song_map,
                              playlist_box, eng, pending, selection,
                              button>>]_vars

\* The current track was removed from the playlist and brought back by
\* prev_song, tracks are still linked, and Next is issued while it plays.
C20_Witness ==
    /\ current_song_node \in Stale
    /\ Len(Linked) >= 2
    /\ Mode = "Playing"
    /\ NextOutcome = "EndOfPlaylist"
    /\ Len(history) < MaxHist
    /\ ENABLED next_song
====
